---- MODULE Spec2Model ----
(***************************************************************************)
(* Part_3_Model_Building.ipynb as a state machine.  The notebook is a      *)
(* linear script: one action per code cell that changes the kernel's       *)
(* state, taken in cell order (pc is the next cell to run).  Cells that    *)
(* only display something (printSchema, the Spark UI link, explainParams,  *)
(* the three print calls) leave the state alone and have no action.        *)
(*                                                                         *)
(* A DataFrame is the set of its rows (a row is named by its position in   *)
(* smaller_flight_table) and the set of its columns.  A string column      *)
(* value is the sequence of its digits, a double is its integer value.     *)
(* The calls into Spark are modelled by what they do to these: na.drop     *)
(* filters, sample and randomSplit draw per row from a random generator    *)
(* (seeded or not), a pipeline stage needs its input columns and adds its  *)
(* output columns, fit records what the model was fitted on, evaluate      *)
(* returns some score.                                                     *)
(***************************************************************************)
EXTENDS Integers, Sequences, FiniteSets, TLC

(* Bounds of the model. *)
NRows == 2
MaxScore == 2

(* CRS_DEP_TIME values of the table: "930" and "1430". *)
Times == {<<9, 3, 0>>, <<1, 4, 3, 0>>}

Positions == 1..NRows
Scores == 1..MaxScore

VARIABLES
    pc,            \* the next cell to run
    run,           \* "first" or "second" in-order run of the notebook
    first,         \* what the first run sampled, and the parts its watched
                   \* randomSplit call made (history)
    watch,         \* the randomSplit call (1, 2 or 3) whose parts the two
                   \* runs are compared on; 0 when a single run is studied
    table,         \* smaller_flight_table: position -> row
    rng,           \* the per-row draws the generator makes from seed 111
    spark,         \* the session exists
    flight_df, input_cols, assembler, pipeline, pipelineModel, model_df,
    train, test,
    nsplit,        \* number of randomSplit calls made so far in this run
    lrModel, rfmodel, gbtModel, cvModel,
    evaluator, paramGrid, cv,
    auc,           \* the scores the evaluate calls displayed (0: not yet)
    evals,         \* the evaluate calls made: which model on which test set
    plot

vars == <<pc, run, first, watch, table, rng, spark, flight_df, input_cols, assembler,
          pipeline, pipelineModel, model_df, train, test, nsplit, lrModel,
          rfmodel, gbtModel, cvModel, evaluator, paramGrid, cv, auc, evals,
          plot>>

(* ---------------------------------------------------------------------- *)
(* Unbound names of the kernel, by shape.                                  *)
NoFlight == [rows |-> {}, cols |-> {}, dtype |-> <<>>, hour |-> <<>>]
NoDF == [rows |-> {}, cols |-> {}, features |-> <<>>, encoded |-> FALSE,
         split |-> 0, weight |-> 0]
NoStage == [kind |-> "", inputCols |-> <<>>, outputCols |-> <<>>]
NoEstimator == [type |-> "", featuresCol |-> "", labelCol |-> ""]
NoModel == [type |-> "", features |-> <<>>, encoded |-> FALSE, split |-> 0,
            fits |-> <<>>]
NoEvaluator == [labelCol |-> "", metricName |-> ""]
NoCV == [estimator |-> NoEstimator, estimatorParamMaps |-> <<>>,
         evaluator |-> NoEvaluator, numFolds |-> 0]
NoPlot == [x |-> "", y |-> "", xlabel |-> "", ylabel |-> "", title |-> ""]
NoAuc == [lr |-> 0, rf |-> 0, gbt |-> 0]
NoHistory == [flight |-> {}, train |-> {}, test |-> {}]

Range(s) == {s[i] : i \in DOMAIN s}

(* ---------------------------------------------------------------------- *)
(* The table and the random generator.                                     *)

(* The columns of smaller_flight_table: the columns the notebook reads     *)
(* and never creates.                                                      *)
LoadedCols == {"OP_CARRIER", "ORIGIN", "DEST", "CRS_DEP_TIME", "CANCELLED",
               "CRS_ELAPSED_TIME", "DISTANCE", "WEEK"}

(* A row of the table is its CRS_DEP_TIME, or Null when the row has a null *)
(* in some column.                                                         *)
Null == <<>>
Rows == Times \cup {Null}

NoSeed == <<>>
Seed(n) == <<n>>

(* The sets of row ranks a generator may pick: one fixed set when it is    *)
(* seeded (the same in every run), any set when it is not.                 *)
Draws(seed) == IF seed = NoSeed THEN SUBSET Positions ELSE {rng}

Rank(r, rows) == Cardinality({x \in rows : x <= r})
KeepAt(rows, d) == {r \in rows : Rank(r, rows) \in d}

(* DataFrame.na.drop(): the rows without a null. *)
na_drop(rows) == {r \in rows : table[r] # Null}

(* DataFrame.sample(fraction, seed): the possible results. *)
sample(rows, seed) == {KeepAt(rows, d) : d \in Draws(seed)}

(* DataFrame.randomSplit(weights, seed): the possible results, each a      *)
(* sequence with one part per weight.                                      *)
randomSplit(df, weights, seed) ==
    {<<[df EXCEPT !.rows = KeepAt(df.rows, d), !.weight = weights[1]],
       [df EXCEPT !.rows = df.rows \ KeepAt(df.rows, d), !.weight = weights[2]]>>
        : d \in Draws(seed)}

(* ---------------------------------------------------------------------- *)
(* Column functions of the feature-engineering cell.                       *)

RECURSIVE ToDouble(_)
ToDouble(s) == IF s = <<>> THEN 0
               ELSE 10 * ToDouble(SubSeq(s, 1, Len(s) - 1)) + s[Len(s)]

(* when(length(c) == 4, c).otherwise(concat(lit("0"), c)) *)
PadTime(s) == IF Len(s) = 4 THEN s ELSE <<0>> \o s

(* DataFrame.withColumn(name, values): adds or replaces the column. *)
withColumn(df, name, type, values) ==
    [df EXCEPT !.cols = @ \cup {name},
               !.dtype = [c \in (DOMAIN @) \cup {name} |->
                             IF c = name THEN type ELSE @[c]],
               !.hour = IF name = "CRS_DEP_HOUR" THEN values ELSE @]

(* CRS_DEP_TIME is a loaded column, CRS_DEP_HOUR the engineered one. *)
col(df, name, r) == IF name = "CRS_DEP_TIME" THEN table[r] ELSE df.hour[r]

(* The two withColumn calls of the cell, in order. *)
engineer(df) ==
    LET padded == withColumn(df, "CRS_DEP_HOUR", "string",
                      [r \in df.rows |-> PadTime(col(df, "CRS_DEP_TIME", r))])
    IN  withColumn(padded, "CRS_DEP_HOUR", "double",
                      [r \in padded.rows |-> ToDouble(col(padded, "CRS_DEP_TIME", r))])

(* ---------------------------------------------------------------------- *)
(* Pipeline stages.                                                        *)

numeric_cols == <<"CRS_ELAPSED_TIME", "DISTANCE", "WEEK", "CRS_DEP_HOUR">>

StringIndexer(inputCol, outputCol) ==
    [kind |-> "StringIndexer", inputCols |-> <<inputCol>>, outputCols |-> <<outputCol>>]

op_carrier_indexer == StringIndexer("OP_CARRIER", "OP_CARRIER_INDEXED")
origin_indexer == StringIndexer("ORIGIN", "ORIGIN_INDEXED")
dest_indexer == StringIndexer("DEST", "DEST_INDEXED")

indexer_encoder ==
    [kind |-> "OneHotEncoderEstimator",
     inputCols |-> <<"OP_CARRIER_INDEXED", "ORIGIN_INDEXED", "DEST_INDEXED">>,
     outputCols |-> <<"OP_CARRIER_ENCODED", "ORIGIN_ENCODED", "DEST_ENCODED">>]

VectorAssembler(inputCols, outputCol) ==
    [kind |-> "VectorAssembler", inputCols |-> inputCols, outputCols |-> <<outputCol>>]

encoded_cols == <<"OP_CARRIER_ENCODED", "ORIGIN_ENCODED", "DEST_ENCODED">> \o numeric_cols
indexed_cols == <<"OP_CARRIER_INDEXED", "ORIGIN_INDEXED", "DEST_INDEXED">> \o numeric_cols

selectedCols == <<"CANCELLED", "features">>

(* Pipeline.fit(df) then PipelineModel.transform(df): the stages run in    *)
(* order, each needs its input columns and adds its output columns.        *)
RECURSIVE transform(_, _)
transform(stages, cols) ==
    IF stages = <<>> THEN [ok |-> TRUE, cols |-> cols]
    ELSE IF Range(Head(stages).inputCols) \subseteq cols
         THEN transform(Tail(stages), cols \cup Range(Head(stages).outputCols))
         ELSE [ok |-> FALSE, cols |-> cols]

(* What the column 'features' was assembled from. *)
FeaturesOf(stages) ==
    LET made == {i \in DOMAIN stages : "features" \in Range(stages[i].outputCols)}
    IN  IF made = {} THEN <<>>
        ELSE stages[CHOOSE i \in made : \A j \in made : j <= i].inputCols

HasEncoder(stages) == \E i \in DOMAIN stages : stages[i].kind = "OneHotEncoderEstimator"

(* pipelineModel.transform(flight_df).select(selectedCols) *)
transform_select(stages, df) ==
    [rows |-> df.rows, cols |-> Range(selectedCols), features |-> FeaturesOf(stages),
     encoded |-> HasEncoder(stages), split |-> 0, weight |-> 0]

runs_on(stages, df) ==
    /\ transform(stages, df.cols).ok
    /\ Range(selectedCols) \subseteq transform(stages, df.cols).cols

(* ---------------------------------------------------------------------- *)
(* Estimators, models, evaluators.                                         *)

lr == [type |-> "LogisticRegression", featuresCol |-> "features", labelCol |-> "CANCELLED"]
rfclassifier == [type |-> "RandomForestClassifier", featuresCol |-> "features",
                 labelCol |-> "CANCELLED"]
gbt == [type |-> "GBTClassifier", featuresCol |-> "features", labelCol |-> "CANCELLED"]

(* Estimator.fit(df): the model remembers what it was fitted on. *)
fit(estimator, df) ==
    [type |-> estimator.type, features |-> df.features, encoded |-> df.encoded,
     split |-> df.split, fits |-> <<>>]

BinaryClassificationEvaluator(labelCol, metricName) ==
    [labelCol |-> labelCol, metricName |-> metricName]

(* model.transform(df) followed by evaluator.evaluate(predictions). *)
evaluation(name, model, df, ev) ==
    [model |-> name, modelSplit |-> model.split, testSplit |-> df.split,
     modelFeatures |-> model.features, testFeatures |-> df.features,
     part |-> df.weight, labelCol |-> ev.labelCol, metricName |-> ev.metricName]

(* ---------------------------------------------------------------------- *)
(* The hyperparameter grid and the cross-validation.                       *)

numFolds == 5

(* Mutant: a repeated value in the maxIter list. *)
maxIter_values_repeated == <<5, 10, 10>>

maxIter_values == <<5, 10, 100>>
regParam_values == <<"0.0", "0.01", "0.1">>
elasticNetParam_values == <<"0.0", "0.5", "1.0">>

(* ParamGridBuilder().addGrid(a).addGrid(b).addGrid(c).build(): the        *)
(* product of the three value lists, the last one varying fastest.         *)
build(a, b, c) ==
    [k \in 1..(Len(a) * Len(b) * Len(c)) |->
        [maxIter |-> a[((k - 1) \div (Len(b) * Len(c))) + 1],
         regParam |-> b[(((k - 1) \div Len(c)) % Len(b)) + 1],
         elasticNetParam |-> c[((k - 1) % Len(c)) + 1]]]

CrossValidator(estimator, estimatorParamMaps, ev, folds) ==
    [estimator |-> estimator, estimatorParamMaps |-> estimatorParamMaps,
     evaluator |-> ev, numFolds |-> folds]

(* CrossValidator.fit: on each fold every parameter map is fitted once;    *)
(* fits[j] counts the fits of map j.                                       *)
RECURSIVE fold_loop(_, _, _)
fold_loop(i, folds, fits) ==
    IF i > folds THEN fits
    ELSE fold_loop(i + 1, folds, [j \in DOMAIN fits |-> fits[j] + 1])

cv_fit(c, df) ==
    [fit(c.estimator, df) EXCEPT
        !.fits = fold_loop(1, c.numFolds, [j \in DOMAIN c.estimatorParamMaps |-> 0])]

(* ---------------------------------------------------------------------- *)
(* The cells.                                                              *)

InitWatching(splits) ==
    /\ pc = "session"
    /\ run = "first"
    /\ first = NoHistory
    /\ watch \in splits
    /\ table \in [Positions -> Rows]
    /\ rng \in SUBSET Positions
    /\ spark = FALSE
    /\ flight_df = NoFlight
    /\ input_cols = <<>>
    /\ assembler = NoStage
    /\ pipeline = <<>>
    /\ pipelineModel = <<>>
    /\ model_df = NoDF
    /\ train = NoDF
    /\ test = NoDF
    /\ nsplit = 0
    /\ lrModel = NoModel
    /\ rfmodel = NoModel
    /\ gbtModel = NoModel
    /\ cvModel = NoModel
    /\ evaluator = NoEvaluator
    /\ paramGrid = <<>>
    /\ cv = NoCV
    /\ auc = NoAuc
    /\ evals = {}
    /\ plot = NoPlot

Init == InitWatching({0})

data_vars == <<flight_df, input_cols, assembler, pipeline, pipelineModel, model_df,
               train, test, nsplit>>
model_vars == <<lrModel, rfmodel, gbtModel, cvModel, evaluator, paramGrid, cv, auc,
                evals, plot>>
world_vars == <<run, watch, table, rng>>

(* spark = SparkSession.builder ... getOrCreate() *)
StartSession ==
    /\ pc = "session"
    /\ spark' = TRUE
    /\ pc' = "load"
    /\ UNCHANGED <<world_vars, first, data_vars, model_vars>>

(* Mutant: sample(1/600) without a seed. *)
sampleSeed_none == NoSeed

(* flight_df = flight_df_original.na.drop().sample(1/600, seed=111) *)
sampleSeed == Seed(111)

LoadData ==
    /\ pc = "load"
    /\ \E rows \in sample(na_drop(DOMAIN table), sampleSeed) :
          /\ flight_df' = [NoFlight EXCEPT !.rows = rows, !.cols = LoadedCols]
          /\ first' = IF run = "first" THEN [first EXCEPT !.flight = rows] ELSE first
    /\ pc' = "engineer"
    /\ UNCHANGED <<world_vars, spark, input_cols, assembler, pipeline, pipelineModel,
                   model_df, train, test, nsplit, model_vars>>

FeatureEngineering ==
    /\ pc = "engineer"
    /\ flight_df' = engineer(flight_df)
    /\ pc' = "pipeline"
    /\ UNCHANGED <<world_vars, first, spark, input_cols, assembler, pipeline,
                   pipelineModel, model_df, train, test, nsplit, model_vars>>

(* The stages of the first and third pipeline, and of the second. *)
encoded_stages(asm) ==
    <<op_carrier_indexer, origin_indexer, dest_indexer, indexer_encoder, asm>>
indexed_stages(asm) ==
    <<op_carrier_indexer, origin_indexer, dest_indexer, asm>>

BuildPipeline ==
    /\ pc = "pipeline"
    /\ input_cols' = encoded_cols
    /\ assembler' = VectorAssembler(input_cols', "features")
    /\ pipeline' = encoded_stages(assembler')
    /\ pc' = "split1"
    /\ UNCHANGED <<world_vars, first, spark, flight_df, pipelineModel, model_df, train,
                   test, nsplit, model_vars>>

(* Mutant: (test, train) = ... *)
unpack_swapped(parts, id) ==
    [train |-> [parts[2] EXCEPT !.split = id], test |-> [parts[1] EXCEPT !.split = id]]

(* (train, test) = ... : the first part is train, the second is test. *)
unpack(parts, id) ==
    [train |-> [parts[1] EXCEPT !.split = id], test |-> [parts[2] EXCEPT !.split = id]]

split_weights == <<7, 3>>

(* pipelineModel = pipeline.fit(flight_df)                                 *)
(* model_df = pipelineModel.transform(flight_df).select(selectedCols)      *)
(* (train, test) = model_df.randomSplit([0.7, 0.3])                        *)
FitTransformSplit(stages, next) ==
    IF runs_on(stages, flight_df)
    THEN /\ pipelineModel' = stages
         /\ model_df' = transform_select(stages, flight_df)
         /\ \E parts \in randomSplit(model_df', split_weights, NoSeed) :
               /\ train' = unpack(parts, nsplit + 1).train
               /\ test' = unpack(parts, nsplit + 1).test
               /\ first' = IF run = "first" /\ watch = nsplit + 1
                           THEN [first EXCEPT !.train = train'.rows,
                                              !.test = test'.rows]
                           ELSE first
         /\ nsplit' = nsplit + 1
         /\ pc' = next
    ELSE /\ pc' = "error"
         /\ UNCHANGED <<first, pipelineModel, model_df, train, test, nsplit>>

CreateTrainTest ==
    /\ pc = "split1"
    /\ FitTransformSplit(pipeline, "fitlr")
    /\ UNCHANGED <<world_vars, spark, flight_df, input_cols, assembler, pipeline,
                   model_vars>>

FitLogisticRegression ==
    /\ pc = "fitlr"
    /\ lrModel' = fit(lr, train)
    /\ pc' = "evallr"
    /\ UNCHANGED <<world_vars, first, spark, data_vars, rfmodel, gbtModel, cvModel,
                   evaluator, paramGrid, cv, auc, evals, plot>>

Evaluate(name, model, next) ==
    /\ evaluator' = BinaryClassificationEvaluator("CANCELLED", "areaUnderROC")
    /\ evals' = evals \cup {evaluation(name, model, test, evaluator')}
    /\ \E score \in Scores : auc' = [auc EXCEPT ![name] = score]
    /\ pc' = next

EvaluateLogisticRegression ==
    /\ pc = "evallr"
    /\ Evaluate("lr", lrModel, "rebuild")
    /\ UNCHANGED <<world_vars, first, spark, data_vars, lrModel, rfmodel, gbtModel,
                   cvModel, paramGrid, cv, plot>>

(* Mutant: the cell rebuilds the same encoded pipeline. *)
RebuildPipeline_encoded ==
    /\ pc = "rebuild"
    /\ input_cols' = encoded_cols
    /\ assembler' = VectorAssembler(input_cols', "features")
    /\ pipeline' = encoded_stages(assembler')
    /\ FitTransformSplit(pipeline', "fitrf")
    /\ UNCHANGED <<world_vars, spark, flight_df, model_vars>>

(* Mutant: the cell drops the encoder and keeps the old assembler. *)
RebuildPipeline_stale_assembler ==
    /\ pc = "rebuild"
    /\ input_cols' = indexed_cols
    /\ assembler' = assembler
    /\ pipeline' = indexed_stages(assembler')
    /\ FitTransformSplit(pipeline', "fitrf")
    /\ UNCHANGED <<world_vars, spark, flight_df, model_vars>>

RebuildPipeline ==
    /\ pc = "rebuild"
    /\ input_cols' = indexed_cols
    /\ assembler' = VectorAssembler(input_cols', "features")
    /\ pipeline' = indexed_stages(assembler')
    /\ FitTransformSplit(pipeline', "fitrf")
    /\ UNCHANGED <<world_vars, spark, flight_df, model_vars>>

FitRandomForest ==
    /\ pc = "fitrf"
    /\ rfmodel' = fit(rfclassifier, train)
    /\ pc' = "evalrf"
    /\ UNCHANGED <<world_vars, first, spark, data_vars, lrModel, gbtModel, cvModel,
                   evaluator, paramGrid, cv, auc, evals, plot>>

EvaluateRandomForest ==
    /\ pc = "evalrf"
    /\ Evaluate("rf", rfmodel, "fitgbt")
    /\ UNCHANGED <<world_vars, first, spark, data_vars, lrModel, rfmodel, gbtModel,
                   cvModel, paramGrid, cv, plot>>

FitGBT ==
    /\ pc = "fitgbt"
    /\ gbtModel' = fit(gbt, train)
    /\ pc' = "evalgbt"
    /\ UNCHANGED <<world_vars, first, spark, data_vars, lrModel, rfmodel, cvModel,
                   evaluator, paramGrid, cv, auc, evals, plot>>

(* Mutant: the cell's evaluator measures the area under the PR curve. *)
EvaluateGBT_pr ==
    /\ pc = "evalgbt"
    /\ evaluator' = BinaryClassificationEvaluator("CANCELLED", "areaUnderPR")
    /\ evals' = evals \cup {evaluation("gbt", gbtModel, test, evaluator')}
    /\ \E score \in Scores : auc' = [auc EXCEPT !.gbt = score]
    /\ pc' = "rebuild2"
    /\ UNCHANGED <<world_vars, first, spark, data_vars, lrModel, rfmodel, gbtModel,
                   cvModel, paramGrid, cv, plot>>

EvaluateGBT ==
    /\ pc = "evalgbt"
    /\ Evaluate("gbt", gbtModel, "rebuild2")
    /\ UNCHANGED <<world_vars, first, spark, data_vars, lrModel, rfmodel, gbtModel,
                   cvModel, paramGrid, cv, plot>>

RebuildPipelineAgain ==
    /\ pc = "rebuild2"
    /\ input_cols' = encoded_cols
    /\ assembler' = VectorAssembler(input_cols', "features")
    /\ pipeline' = encoded_stages(assembler')
    /\ FitTransformSplit(pipeline', "cv")
    /\ UNCHANGED <<world_vars, spark, flight_df, model_vars>>

(* Mutant: the sweep is run on the gradient-boosted trees estimator. *)
CrossValidate_gbt ==
    /\ pc = "cv"
    /\ paramGrid' = build(maxIter_values, regParam_values, elasticNetParam_values)
    /\ cv' = CrossValidator(gbt, paramGrid', evaluator, numFolds)
    /\ cvModel' = cv_fit(cv', train)
    /\ pc' = "evalcv"
    /\ UNCHANGED <<world_vars, first, spark, data_vars, lrModel, rfmodel, gbtModel,
                   evaluator, auc, evals, plot>>

(* paramGrid = ParamGridBuilder()...build()                                *)
(* cv = CrossValidator(estimator=lr, estimatorParamMaps=paramGrid,         *)
(*                     evaluator=evaluator, numFolds=5, parallelism=3)     *)
(* cvModel = cv.fit(train)                                                 *)
CrossValidate ==
    /\ pc = "cv"
    /\ paramGrid' = build(maxIter_values, regParam_values, elasticNetParam_values)
    /\ cv' = CrossValidator(lr, paramGrid', evaluator, numFolds)
    /\ cvModel' = cv_fit(cv', train)
    /\ pc' = "evalcv"
    /\ UNCHANGED <<world_vars, first, spark, data_vars, lrModel, rfmodel, gbtModel,
                   evaluator, auc, evals, plot>>

(* predictions = cvModel.transform(test); evaluator.evaluate(predictions) *)
EvaluateCrossValidation ==
    /\ pc = "evalcv"
    /\ evals' = evals \cup {evaluation("cv", cvModel, test, evaluator)}
    /\ pc' = "plot"
    /\ UNCHANGED <<world_vars, first, spark, data_vars, lrModel, rfmodel, gbtModel,
                   cvModel, evaluator, paramGrid, cv, auc, plot>>

(* roc = lrModel.summary.roc.toPandas(); plotter() *)
plotter ==
    LET plotted == [NoPlot EXCEPT !.x = "FPR", !.y = "TPR"]
        ylabelled == [plotted EXCEPT !.ylabel = "False Positive Rate"]
        xlabelled == [ylabelled EXCEPT !.xlabel = "True Positive Rate"]
    IN  [xlabelled EXCEPT !.title = "ROC Curve"]

PlotROC ==
    /\ pc = "plot"
    /\ plot' = plotter
    /\ pc' = "done"
    /\ UNCHANGED <<world_vars, first, spark, data_vars, lrModel, rfmodel, gbtModel,
                   cvModel, evaluator, paramGrid, cv, auc, evals>>

(* The notebook is run again from its first cell in a fresh kernel, over   *)
(* the same table.                                                         *)
RunAgain ==
    /\ pc = "done"
    /\ run = "first"
    /\ run' = "second"
    /\ pc' = "session"
    /\ spark' = FALSE
    /\ flight_df' = NoFlight
    /\ input_cols' = <<>>
    /\ assembler' = NoStage
    /\ pipeline' = <<>>
    /\ pipelineModel' = <<>>
    /\ model_df' = NoDF
    /\ train' = NoDF
    /\ test' = NoDF
    /\ nsplit' = 0
    /\ lrModel' = NoModel
    /\ rfmodel' = NoModel
    /\ gbtModel' = NoModel
    /\ cvModel' = NoModel
    /\ evaluator' = NoEvaluator
    /\ paramGrid' = <<>>
    /\ cv' = NoCV
    /\ auc' = NoAuc
    /\ evals' = {}
    /\ plot' = NoPlot
    /\ UNCHANGED <<watch, table, rng, first>>

Next ==
    \/ StartSession
    \/ LoadData
    \/ FeatureEngineering
    \/ BuildPipeline
    \/ CreateTrainTest
    \/ FitLogisticRegression
    \/ EvaluateLogisticRegression
    \/ RebuildPipeline
    \/ FitRandomForest
    \/ EvaluateRandomForest
    \/ FitGBT
    \/ EvaluateGBT
    \/ RebuildPipelineAgain
    \/ CrossValidate
    \/ EvaluateCrossValidation
    \/ PlotROC

Spec == Init /\ [][Next]_vars

(* Two in-order runs over the same contents of smaller_flight_table,      *)
(* compared on the sample and on one of the three randomSplit calls.       *)
(* The departure times play no part in sampling and splitting: the rows    *)
(* that have one share it.                                                 *)
SameTimes == \A i, j \in Positions : table[i] = Null \/ table[j] = Null \/ table[i] = table[j]

InitRerun == InitWatching(1..3) /\ SameTimes

NextRerun == Next \/ RunAgain

SpecRerun == InitRerun /\ [][NextRerun]_vars

(* ---------------------------------------------------------------------- *)
(* Properties.                                                             *)

EncodedNames == {"OP_CARRIER_ENCODED", "ORIGIN_ENCODED", "DEST_ENCODED"}
IndexedNames == {"OP_CARRIER_INDEXED", "ORIGIN_INDEXED", "DEST_INDEXED"}

OnEncoded(m) ==
    /\ m.encoded
    /\ EncodedNames \subseteq Range(m.features)
    /\ IndexedNames \cap Range(m.features) = {}
OnIndexed(m) ==
    /\ ~m.encoded
    /\ IndexedNames \subseteq Range(m.features)
    /\ EncodedNames \cap Range(m.features) = {}

(* C1: whenever a classifier has been fitted, it was fitted on the feature *)
(* set meant for it: lrModel and cvModel on a train set assembled from the *)
(* one-hot encoded columns by a pipeline with the encoder stage, rfmodel   *)
(* and gbtModel on a train set assembled from the indexed columns by a     *)
(* pipeline without the encoder stage.                                     *)
C1_FittedOnMeantFeatures ==
    /\ lrModel # NoModel => OnEncoded(lrModel)
    /\ cvModel # NoModel => OnEncoded(cvModel)
    /\ rfmodel # NoModel => OnIndexed(rfmodel)
    /\ gbtModel # NoModel => OnIndexed(gbtModel)

C1_Witness ==
    /\ pc = "done"
    /\ lrModel # NoModel /\ rfmodel # NoModel /\ gbtModel # NoModel /\ cvModel # NoModel
    /\ cvModel.split = 3 /\ rfmodel.split = 2

ScoreOf(type) ==
    IF type = "LogisticRegression" THEN auc.lr
    ELSE IF type = "RandomForestClassifier" THEN auc.rf ELSE auc.gbt

BestPerforming(type) ==
    /\ ScoreOf(type) >= auc.lr
    /\ ScoreOf(type) >= auc.rf
    /\ ScoreOf(type) >= auc.gbt

C3_Grid3x3x3On5Folds ==
    cv # NoCV =>
        /\ Len(paramGrid) = 27
        /\ \A a \in {5, 10, 100}, b \in {"0.0", "0.01", "0.1"}, c \in {"0.0", "0.5", "1.0"} :
              Cardinality({k \in DOMAIN paramGrid :
                  paramGrid[k] = [maxIter |-> a, regParam |-> b, elasticNetParam |-> c]}) = 1
        /\ cv.estimatorParamMaps = paramGrid
        /\ cv.numFolds = 5
        /\ DOMAIN cvModel.fits = DOMAIN paramGrid
        /\ \A j \in DOMAIN cvModel.fits : cvModel.fits[j] = 5

C3_Witness ==
    /\ pc = "evalcv"
    /\ Len(cvModel.fits) = 27
    /\ train.rows # {}

(* C4 as stated: after the feature-engineering cell CRS_DEP_HOUR holds,    *)
(* for every row, the hour of CRS_DEP_TIME (the first two characters of    *)
(* the time padded to four) as a double, not the full time value.          *)
C4_DepHourIsHour ==
    "CRS_DEP_HOUR" \in flight_df.cols =>
        \A r \in flight_df.rows :
            /\ flight_df.hour[r] = ToDouble(SubSeq(PadTime(table[r]), 1, 2))
            /\ flight_df.hour[r] \in 0..23

(* C5 as stated: after the feature-engineering cell the dataset has        *)
(* exactly two columns that were not loaded, both double, and every name   *)
(* of numeric_cols that is not a loaded column is one of them.             *)
C5_TwoEngineeredColumns ==
    "CRS_DEP_HOUR" \in flight_df.cols =>
        /\ Cardinality(flight_df.cols \ LoadedCols) = 2
        /\ \A c \in flight_df.cols \ LoadedCols : flight_df.dtype[c] = "double"
        /\ Range(numeric_cols) \ LoadedCols \subseteq flight_df.cols \ LoadedCols

Before(stages, i) == UNION {Range(stages[j].outputCols) : j \in 1..(i - 1)}

FixedSequence(stages) ==
    /\ Len(stages) \in {4, 5}
    /\ stages[1] = [kind |-> "StringIndexer", inputCols |-> <<"OP_CARRIER">>,
                    outputCols |-> <<"OP_CARRIER_INDEXED">>]
    /\ stages[2] = [kind |-> "StringIndexer", inputCols |-> <<"ORIGIN">>,
                    outputCols |-> <<"ORIGIN_INDEXED">>]
    /\ stages[3] = [kind |-> "StringIndexer", inputCols |-> <<"DEST">>,
                    outputCols |-> <<"DEST_INDEXED">>]
    /\ Len(stages) = 5 => stages[4].kind = "OneHotEncoderEstimator"
    /\ stages[Len(stages)].kind = "VectorAssembler"

InputsExist(stages, cols) ==
    \A i \in DOMAIN stages :
        Range(stages[i].inputCols) \subseteq cols \cup Before(stages, i)

C7_SplitIsPartition ==
    nsplit > 0 =>
        /\ train.rows \cup test.rows = model_df.rows
        /\ train.rows \cap test.rows = {}
        /\ train.weight = 7 /\ test.weight = 3
        /\ train.split = nsplit /\ test.split = nsplit
        /\ model_df.rows = flight_df.rows

C7_Witness ==
    /\ nsplit = 3
    /\ train.rows # {}
    /\ test.rows # {}

ExpectedSplit(name) ==
    IF name = "lr" THEN 1 ELSE IF name \in {"rf", "gbt"} THEN 2 ELSE 3

(* C8: every evaluation scores a model on the test part of the very split  *)
(* whose train part it was fitted on, with the same feature set, with an   *)
(* evaluator for areaUnderROC on label CANCELLED; the evaluator handed to  *)
(* the CrossValidator is configured the same.                              *)
C8_ScoredOnOwnSplit ==
    /\ \A e \in evals :
          /\ e.modelSplit = e.testSplit
          /\ e.modelSplit = ExpectedSplit(e.model)
          /\ e.part = 3
          /\ e.modelFeatures = e.testFeatures
          /\ e.metricName = "areaUnderROC"
          /\ e.labelCol = "CANCELLED"
    /\ cv # NoCV =>
          /\ cv.evaluator.metricName = "areaUnderROC"
          /\ cv.evaluator.labelCol = "CANCELLED"

C8_Witness ==
    /\ {e.model : e \in evals} = {"lr", "rf", "gbt", "cv"}
    /\ nsplit = 3

AxisName(series) ==
    IF series = "FPR" THEN "False Positive Rate"
    ELSE IF series = "TPR" THEN "True Positive Rate" ELSE ""

(* C9 as stated: in the final plot the x axis label names the series drawn *)
(* along x (FPR: 'False Positive Rate') and the y axis label names the     *)
(* series drawn along y (TPR: 'True Positive Rate').                       *)
C9_AxisLabelsNameSeries ==
    plot # NoPlot =>
        /\ plot.xlabel = AxisName(plot.x)
        /\ plot.ylabel = AxisName(plot.y)

(* C10 as stated: in the second run flight_df holds the rows the first run *)
(* sampled, and after each of the three splits (the watched one) train and *)
(* test hold the rows they held after that split in the first run.         *)
C10_SameRowsInBothRuns ==
    run = "second" =>
        /\ flight_df # NoFlight => flight_df.rows = first.flight
        /\ train.split = watch =>
              /\ train.rows = first.train
              /\ test.rows = first.test

(* C10 as amended: in the second run flight_df, and so each model_df that  *)
(* is split, holds the rows of the first run (the sample is seeded); the   *)
(* three splits are unseeded and train and test need not repeat.           *)
C10_SameSampleInBothRuns ==
    run = "second" =>
        /\ flight_df # NoFlight => flight_df.rows = first.flight
        /\ nsplit > 0 => model_df.rows = first.flight
        /\ train.split = watch =>
              train.rows \cup test.rows = first.train \cup first.test

C10_Witness ==
    /\ run = "second"
    /\ pc = "done"
    /\ flight_df.rows # {}
    /\ train.split = watch
    /\ train.rows # first.train

====
